---- MODULE Spec2Model ----
(***************************************************************************)
(* A model of three parts of conda_forge_tick:                             *)
(*   - executors.py: the reentrant distributed lock DaskRLock;             *)
(*   - migrators/cstdlib.py: the line-oriented stdlib patcher;             *)
(*   - migrators/version.py and update_recipe/v2/version.py: the version   *)
(*     and hash resolution engines.                                        *)
(* Each part has its own specification over the shared variables; the      *)
(* variables of the other parts stay at their idle values.                 *)
(***************************************************************************)
EXTENDS Integers, Sequences, FiniteSets, TLC

(***************************************************************************)
(* Bounds                                                                  *)
(***************************************************************************)
\* calls (acquire or release) the owners may start, all together
MaxCalls == 4
\* lines of a recipe after its first line
MaxLines == 4
\* executor contexts entered one after the other
MaxUses == 5
\* source entries of a recipe
MaxSources == 2
\* rewrites gen_transformed_urls yields for one URL template
MaxRewrites == 2

(***************************************************************************)
(* Part 1: executors.py, DaskRLock                                         *)
(***************************************************************************)
VARIABLES
    handleOf,    \* owner -> the DaskRLock object (DRLOCK) its worker uses
    hasRcount,   \* handle -> hasattr(self, "_rcount")
    rcount,      \* handle -> self._rcount
    hasRdata,    \* handle -> hasattr(self, "_rdata")
    dheld,       \* the distributed lock named "cftick" is held
    pc,          \* owner -> position inside acquire()/release()
    tmp,         \* owner -> value of self._rcount read by an in-flight += / -=
    last,        \* owner -> outcome of the owner's last completed call
    hist,        \* owner -> completed calls, in order
    calls        \* owner -> calls started so far

lockVars == <<handleOf, hasRcount, rcount, hasRdata, dheld, pc, tmp, last, hist, calls>>

VARIABLES
    doc,         \* the lines of meta.yaml as read (one "global" section)
    stub,        \* attrs: the build requirements name a *_compiler_stub
    ppc,         \* "start", "skipped", "migrated" or "raised"
    out,         \* the list of lines migrate() writes back to meta.yaml
    cbc,         \* c_stdlib_version was appended to conda_build_config.yaml
    path         \* the branch of _process_section that returned

patchVars == <<doc, stub, ppc, out, cbc, path>>

(***************************************************************************)
(* Part 3: the version and hash engines                                    *)
(***************************************************************************)
VARIABLES
    net,         \* the network: (template id, rewrite) -> what fetching it gives
    fetchLog,    \* the URLs handed to hash_url so far, in order
    urlIn,       \* the arguments of one call of _get_new_url_tmpl_and_hash
    urlOut,      \* what that call returned
    engine,      \* "v1": Version.migrate, "v2": update_version
    given,       \* v2: the hash_ argument
    jvars,       \* cmeta.jinja2_vars (v2: data["context"]), in file order
    srcs,        \* the source entries of the recipe, in file order
    old,         \* the recipe as it was read
    vpc,         \* where the migration is
    si,          \* the source entry being updated
    selsLeft,    \* possible_selectors not yet visited for it
    updated,     \* updated_version of _try_to_update_version
    didUpdate,   \* did_update of migrate, v2: no error so far
    result,      \* what the migration returned
    ret,         \* v2: the document returned
    file,        \* the recipe file on disk
    iters        \* what each selector iteration (v2: each source) did

migVars == <<engine, given, jvars, srcs, old, vpc, si, selsLeft, updated,
             didUpdate, result, ret, file, iters>>

verVars == <<net, fetchLog, urlIn, urlOut, migVars>>

(***************************************************************************)
(* Part 5: the executor context manager                                    *)
(***************************************************************************)
VARIABLES
    ekind,       \* the kind of the executor context entered last
    epc,         \* "in" while the body of `with executor(...)` runs
    PRLOCK,      \* the module global of the calling process
    DRLOCK,      \* the module global of the calling process
    wPRLOCK,     \* the module global of the pool's worker processes, if any
    wDRLOCK,     \* the module global of the cluster's worker processes, if any
    exited,      \* how the last context ended
    uses         \* contexts entered so far

execVars == <<ekind, epc, PRLOCK, DRLOCK, wPRLOCK, wDRLOCK, exited, uses>>

notLockVars == <<patchVars, verVars, execVars>>
notPatchVars == <<lockVars, verVars, execVars>>
notVerVars == <<lockVars, patchVars, execVars>>
notExecVars == <<lockVars, patchVars, verVars>>

vars == <<lockVars, patchVars, verVars, execVars>>

Names == {"version", "name"}

Tmpl(id, vs) == [id |-> id, rw |-> 0, vars |-> vs]

NoUrl == [id |-> "", rw |-> 0, ver |-> "", name |-> ""]

\* the values of hash fields and variables: a literal string, a template
\* "{{ var }}", the hash of the bytes at a URL, a hash handed in by the caller,
\* or None
Str(x) == [kind |-> "str", s |-> x, url |-> NoUrl]
JinjaRef(v) == [kind |-> "tmpl", s |-> v, url |-> NoUrl]
HashOf(u) == [kind |-> "hash", s |-> "", url |-> u]
None == [kind |-> "none", s |-> "", url |-> NoUrl]

\* the selector of a key without selector, and of the iteration selector None
NoSelector == ""

\* one key of an ordered mapping: key base, selector of the key, and its value,
\* a list of URL templates or a hash or string value
Item(base, sel, urls, hv) == [base |-> base, sel |-> sel, urls |-> urls, hv |-> hv]

\* hash_ is None
NoGiven == [type |-> "", hv |-> None]

NoDoc == [some |-> FALSE, jvars |-> <<>>, srcs |-> <<>>, build |-> 0]

\* new_url_tmpl = None before the loop
NoTmpl == [id |-> "", rw |-> 0, vars |-> {}]

\* the ids of the URL templates of the recipes
TmplIds == {"a", "b"}

NetKeys == TmplIds \X (0..MaxRewrites)

IdleNet == [k \in NetKeys |-> "notfound"]


Owners == {"A", "B"}
Handles == {1, 2}

\* dask-thread: every worker thread of the one process reads the same
\* module-level DRLOCK; dask / dask-process: one DRLOCK per worker process.
SharedHandle == [o \in Owners |-> 1]
OwnHandle == [o \in Owners |-> IF o = "A" THEN 1 ELSE 2]

InitLock ==
    /\ handleOf \in {SharedHandle, OwnHandle}
    /\ hasRcount = [h \in Handles |-> FALSE]
    /\ rcount = [h \in Handles |-> 0]
    /\ hasRdata = [h \in Handles |-> FALSE]
    /\ dheld = FALSE
    /\ pc = [o \in Owners |-> "idle"]
    /\ tmp = [o \in Owners |-> 0]
    /\ last = [o \in Owners |-> "none"]
    /\ hist = [o \in Owners |-> <<>>]
    /\ calls = [o \in Owners |-> 0]
    /\ ekind = "thread" /\ epc = "out" /\ PRLOCK = "DummyLock" /\ DRLOCK = "DummyLock"
    /\ wPRLOCK = "none" /\ wDRLOCK = "none" /\ exited = "none" /\ uses = 0
    /\ doc = <<>> /\ stub = FALSE /\ ppc = "start" /\ out = <<>>
    /\ cbc = FALSE /\ path = "none"
    /\ net = IdleNet /\ fetchLog = <<>>
    /\ urlIn = [tmpl |-> NoTmpl, context |-> <<>>]
    /\ urlOut = [tmpl |-> NoTmpl, hash |-> None, fetched |-> <<>>, done |-> FALSE]
    /\ engine = "v1" /\ given = NoGiven /\ jvars = <<>> /\ srcs = <<>>
    /\ old = NoDoc /\ vpc = "idle" /\ si = 0 /\ selsLeft = {}
    /\ updated = FALSE /\ didUpdate = FALSE /\ result = "pending"
    /\ ret = NoDoc /\ file = NoDoc /\ iters = <<>>

\* the calls of all owners so far
CallsMade == calls["A"] + calls["B"]

\* a call returns or raises: record it and go back to the caller
Finish(o, call, outcome) ==
    /\ pc' = [pc EXCEPT ![o] = "idle"]
    /\ last' = [last EXCEPT ![o] = outcome]
    /\ hist' = [hist EXCEPT ![o] = Append(@, <<call, outcome>>)]

\* the caller invokes DRLOCK.acquire()
CallAcquire(o) ==
    /\ pc[o] = "idle"
    /\ CallsMade < MaxCalls
    /\ calls' = [calls EXCEPT ![o] = @ + 1]
    /\ pc' = [pc EXCEPT ![o] = "a_init"]
    /\ UNCHANGED <<handleOf, hasRcount, rcount, hasRdata, dheld, tmp, last, hist>>
    /\ UNCHANGED notLockVars

\* if not hasattr(self, "_rcount"): self._rcount = 0
AcquireInit(o) ==
    LET h == handleOf[o] IN
    /\ pc[o] = "a_init"
    /\ hasRcount' = [hasRcount EXCEPT ![h] = TRUE]
    /\ rcount' = [rcount EXCEPT ![h] = IF hasRcount[h] THEN @ ELSE 0]
    /\ pc' = [pc EXCEPT ![o] = "a_read"]
    /\ UNCHANGED <<handleOf, hasRdata, dheld, tmp, last, hist, calls>>
    /\ UNCHANGED notLockVars

\* self._rcount += 1, the load
AcquireRead(o) ==
    /\ pc[o] = "a_read"
    /\ tmp' = [tmp EXCEPT ![o] = rcount[handleOf[o]]]
    /\ pc' = [pc EXCEPT ![o] = "a_write"]
    /\ UNCHANGED <<handleOf, hasRcount, rcount, hasRdata, dheld, last, hist, calls>>
    /\ UNCHANGED notLockVars

\* self._rcount += 1, the store
AcquireWrite(o) ==
    /\ pc[o] = "a_write"
    /\ rcount' = [rcount EXCEPT ![handleOf[o]] = tmp[o] + 1]
    /\ tmp' = [tmp EXCEPT ![o] = 0]
    /\ pc' = [pc EXCEPT ![o] = "a_test"]
    /\ UNCHANGED <<handleOf, hasRcount, hasRdata, dheld, last, hist, calls>>
    /\ UNCHANGED notLockVars

\* self._rcount == 1
OutermostAlways(h) == rcount[h] >= 1

Outermost(h) == rcount[h] = 1

\* if self._rcount == 1: (go and take the distributed lock)
AcquireTest(o) ==
    /\ pc[o] = "a_test"
    /\ pc' = [pc EXCEPT ![o] = IF Outermost(handleOf[o]) THEN "a_super" ELSE "a_ret"]
    /\ UNCHANGED <<handleOf, hasRcount, rcount, hasRdata, dheld, tmp, last, hist, calls>>
    /\ UNCHANGED notLockVars

\* self._rdata = super().acquire(blocking=True, timeout=None)
AcquireSuper(o) ==
    /\ pc[o] = "a_super"
    /\ ~dheld
    /\ dheld' = TRUE
    /\ hasRdata' = [hasRdata EXCEPT ![handleOf[o]] = TRUE]
    /\ pc' = [pc EXCEPT ![o] = "a_ret"]
    /\ UNCHANGED <<handleOf, hasRcount, rcount, tmp, last, hist, calls>>
    /\ UNCHANGED notLockVars

\* return self._rdata
AcquireReturn(o) ==
    /\ pc[o] = "a_ret"
    /\ Finish(o, "acquire", IF hasRdata[handleOf[o]] THEN "ok" ELSE "AttributeError")
    /\ UNCHANGED <<handleOf, hasRcount, rcount, hasRdata, dheld, tmp, calls>>
    /\ UNCHANGED notLockVars

\* the caller invokes DRLOCK.release()
CallRelease(o) ==
    /\ pc[o] = "idle"
    /\ CallsMade < MaxCalls
    /\ calls' = [calls EXCEPT ![o] = @ + 1]
    /\ pc' = [pc EXCEPT ![o] = "r_check"]
    /\ UNCHANGED <<handleOf, hasRcount, rcount, hasRdata, dheld, tmp, last, hist>>
    /\ UNCHANGED notLockVars

\* not hasattr(self, "_rcount") or self._rcount == 0
NotAcquiredNoZeroTest(h) == ~hasRcount[h]

NotAcquired(h) == ~hasRcount[h] \/ rcount[h] = 0

\* if <not acquired>: raise RuntimeError("Lock not acquired so cannot be released!")
ReleaseCheck(o) ==
    /\ pc[o] = "r_check"
    /\ IF NotAcquired(handleOf[o])
         THEN Finish(o, "release", "RuntimeError")
         ELSE /\ pc' = [pc EXCEPT ![o] = "r_read"]
              /\ UNCHANGED <<last, hist>>
    /\ UNCHANGED <<handleOf, hasRcount, rcount, hasRdata, dheld, tmp, calls>>
    /\ UNCHANGED notLockVars

\* self._rcount -= 1, the load
ReleaseRead(o) ==
    /\ pc[o] = "r_read"
    /\ tmp' = [tmp EXCEPT ![o] = rcount[handleOf[o]]]
    /\ pc' = [pc EXCEPT ![o] = "r_write"]
    /\ UNCHANGED <<handleOf, hasRcount, rcount, hasRdata, dheld, last, hist, calls>>
    /\ UNCHANGED notLockVars

\* self._rcount -= 1, the store
ReleaseWrite(o) ==
    /\ pc[o] = "r_write"
    /\ rcount' = [rcount EXCEPT ![handleOf[o]] = tmp[o] - 1]
    /\ tmp' = [tmp EXCEPT ![o] = 0]
    /\ pc' = [pc EXCEPT ![o] = "r_test"]
    /\ UNCHANGED <<handleOf, hasRcount, hasRdata, dheld, last, hist, calls>>
    /\ UNCHANGED notLockVars

\* if self._rcount == 0: delattr(self, "_rdata"); return super().release()
\* else: return None
ReleaseTest(o) ==
    LET h == handleOf[o] IN
    /\ pc[o] = "r_test"
    /\ IF rcount[h] = 0
         THEN IF ~hasRdata[h]
                THEN /\ Finish(o, "release", "AttributeError")
                     /\ UNCHANGED <<hasRdata, dheld>>
                ELSE /\ hasRdata' = [hasRdata EXCEPT ![h] = FALSE]
                     /\ dheld' = FALSE
                     /\ Finish(o, "release", IF dheld THEN "ok" ELSE "ValueError")
         ELSE /\ Finish(o, "release", "ok")
              /\ UNCHANGED <<hasRdata, dheld>>
    /\ UNCHANGED <<handleOf, hasRcount, rcount, tmp, calls>>
    /\ UNCHANGED notLockVars

NextLock ==
    \E o \in Owners :
        \/ CallAcquire(o)
        \/ AcquireInit(o)
        \/ AcquireRead(o)
        \/ AcquireWrite(o)
        \/ AcquireTest(o)
        \/ AcquireSuper(o)
        \/ AcquireReturn(o)
        \/ CallRelease(o)
        \/ ReleaseCheck(o)
        \/ ReleaseRead(o)
        \/ ReleaseWrite(o)
        \/ ReleaseTest(o)

(***************************************************************************)
(* Part 2: migrators/cstdlib.py, the stdlib patcher                        *)
(*                                                                         *)
(* A line is a record: k is the shape the regular expressions of the       *)
(* module recognise, ind the length of its leading whitespace (the         *)
(* "indent" group), sel the text of its "# [...]" selector ("" for none),  *)
(* pad the number of blanks in front of the "#", and pre is TRUE for the   *)
(* one list element that starts with an extra "build:" line.               *)
(***************************************************************************)

Line(k, ind, sel, pad) == [k |-> k, ind |-> ind, sel |-> sel, pad |-> pad, pre |-> FALSE]

\* pat_compiler: (m2w64_)?(c|cxx|fortran)
CompilerKinds == {"cc", "m2c", "other"}

\* the first line of a section: "{% set version = ... %}", "package:" or
\* "  - name: <output>"; never a header or a requirement
FirstLine == Line("plain", 0, "", 0)

\* the lines that follow it are drawn from these
InLines ==
    { Line("build", 2, "", 0),          \* "  build:"
      Line("host", 2, "", 0),           \* "  host:"
      Line("run", 2, "", 0),            \* "  run:"
      Line("test", 0, "", 0),           \* "test:"
      Line("nonreq", 2, "", 0),         \* "  number: 0", "  skip: true", ...
      Line("cc", 4, "", 0),             \* "    - {{ compiler('c') }}"
      Line("cc", 4, "linux", 2),        \* "    - {{ compiler('c') }}  # [linux]"
      Line("m2c", 4, "win", 2),         \* "    - {{ compiler('m2w64_c') }}  # [win]"
      Line("other", 4, "osx", 2),       \* "    - {{ compiler('cxx') }}  # [osx]"
      Line("sysroot217", 4, "", 0),     \* "    - sysroot_linux-64 2.17"
      Line("plain", 0, "", 0) }         \* "requirements:", "about:", "    - python", ...

Docs == {<<FirstLine>> \o b : b \in UNION {[1..n -> InLines] : n \in 0..MaxLines}}

\* Python's `a or b` on line numbers and on indent strings ("" is falsy, as 0 is)
OrInt(a, b) == IF a # 0 THEN a ELSE b

\* Python's `a or b` on selector strings, kept with their padding
OrSel(a, b) == IF a.txt # "" THEN a ELSE b

NoSel == [txt |-> "", pad |-> 0]

ScanInit ==
    [line_build |-> 0, line_compiler_c |-> 0, line_compiler_m2c |-> 0,
     line_compiler_other |-> 0, line_host |-> 0, line_run |-> 0,
     line_constrain |-> 0, line_test |-> 0,
     indent_c |-> 0, indent_m2c |-> 0, indent_other |-> 0,
     selector_c |-> NoSel, selector_m2c |-> NoSel, selector_other |-> NoSel,
     last_line_was_build |-> FALSE]

\* one pass of the loop body for line number i (counted from 0) holding l
ScanStep(s, i, l) ==
    LET sel == [txt |-> l.sel, pad |-> l.pad] IN
    CASE l.k = "build" -> [s EXCEPT !.last_line_was_build = TRUE, !.line_build = i]
      [] l.k = "cc" -> [s EXCEPT !.line_compiler_c = i, !.indent_c = l.ind,
                                 !.selector_c = sel]
      [] l.k = "m2c" -> [s EXCEPT !.line_compiler_m2c = i, !.indent_m2c = l.ind,
                                  !.selector_m2c = sel]
      [] l.k = "other" -> [s EXCEPT !.line_compiler_other = i, !.indent_other = l.ind,
                                    !.selector_other = sel]
      [] l.k = "host" -> [s EXCEPT !.line_host = i]
      [] l.k = "run" -> [s EXCEPT !.line_run = i]
      [] l.k = "constrain" -> [s EXCEPT !.line_constrain = i]
      [] l.k = "test" -> [s EXCEPT !.line_test = i]
      [] OTHER -> IF s.last_line_was_build
                    THEN [s EXCEPT !.line_build = IF l.k = "nonreq" THEN 0 ELSE @,
                                   !.last_line_was_build = FALSE]
                    ELSE s

RECURSIVE ScanFrom(_, _, _)
\* for i, line in enumerate(lines): ...; the test: branch ends in break
ScanFrom(lines, i, s) ==
    IF i >= Len(lines) THEN s
    ELSE LET t == ScanStep(s, i, lines[i + 1]) IN
         IF lines[i + 1].k = "test" THEN t ELSE ScanFrom(lines, i + 1, t)

Scan(lines) == ScanFrom(lines, 0, ScanInit)

\* the line numbers (from 0) of lines[line_build : (line_host or ... or -1)]
BuildSlice(lines, s) ==
    LET stop == OrInt(OrInt(OrInt(OrInt(s.line_host, s.line_run), s.line_constrain),
                            s.line_test), -1)
        hi == IF stop < 0 THEN Len(lines) + stop ELSE stop
    IN  {i \in 0..(Len(lines) - 1) : s.line_build <= i /\ i < hi}

\* needs_stdlib after the double check of the build section
NeedsStdlib(stubReq, lines, s) ==
    \/ stubReq
    \/ /\ s.line_build # 0
       /\ \E i \in BuildSlice(lines, s) : lines[i + 1].k \in CompilerKinds

IsSysroot(l) == l.k = "sysroot217"

RECURSIVE DropSysroot(_)
\* _replacer(lines, "sysroot_linux-64.*", ""): every matching line is discarded
DropSysroot(lines) ==
    IF lines = <<>> THEN <<>>
    ELSE IF IsSysroot(Head(lines)) THEN DropSysroot(Tail(lines))
    ELSE <<Head(lines)>> \o DropSysroot(Tail(lines))

RECURSIVE ReplaceFirstSysroot(_)
\* _replacer(lines, "sysroot_linux-64.*", '{{ stdlib("c") }}', max_times=1):
\* the first matching line keeps its indentation and loses its selector
ReplaceFirstSysroot(lines) ==
    IF lines = <<>> THEN <<>>
    ELSE IF IsSysroot(Head(lines))
           THEN <<Line("stdlib", Head(lines).ind, "", 0)>> \o Tail(lines)
    ELSE <<Head(lines)>> \o ReplaceFirstSysroot(Tail(lines))

\* lines[:at] + [l] + lines[at:]
InsertAt(lines, at, l) ==
    LET a == IF at > Len(lines) THEN Len(lines) ELSE at IN
    SubSeq(lines, 1, a) \o <<l>> \o SubSeq(lines, a + 1, Len(lines))

\* indent: that of the compiler preferred, else computed from lines[0]
Indent(lines, s) ==
    LET i == OrInt(OrInt(s.indent_c, s.indent_m2c), s.indent_other) IN
    IF i = 0 THEN lines[1].ind + 4 ELSE i

\* the first to_insert: indent + '- {{ stdlib("c") }}' + selector, after
\* "build:" at indent[:-2] when no build section was found
ToInsert(lines, s) ==
    LET sel == OrSel(OrSel(s.selector_c, s.selector_m2c), s.selector_other) IN
    [k |-> "stdlib", ind |-> Indent(lines, s), sel |-> sel.txt,
     pad |-> IF sel.txt # "" THEN sel.pad + 2 ELSE 0,
     pre |-> (s.line_build = 0)]

\* where the first to_insert goes; 0 stands for the RuntimeError
LineInsert(s) ==
    LET fallback == OrInt(OrInt(OrInt(s.line_host, s.line_run), s.line_constrain),
                          s.line_test)
        line_compiler == OrInt(OrInt(s.line_compiler_c, s.line_compiler_m2c),
                               s.line_compiler_other)
    IN  IF fallback = 0 THEN 0
        ELSE IF line_compiler # 0 THEN line_compiler + 1 ELSE fallback

\* a second stdlib line after m2w64_c, with the selector of m2w64_c, where the
\* previous version of this operator reused the first selector
SecondInsertFirstSelector(lines, s, first) ==
    IF s.line_compiler_c # 0 /\ s.line_compiler_m2c # 0
      THEN InsertAt(first,
                    s.line_compiler_m2c + 1
                      + (IF s.line_compiler_c < s.line_compiler_m2c THEN 1 ELSE 0),
                    [ToInsert(lines, s) EXCEPT !.pre = FALSE])
      ELSE first

\* if line_compiler_c and line_compiler_m2c: a second stdlib line after m2w64_c
SecondInsert(lines, s, first) ==
    IF s.line_compiler_c # 0 /\ s.line_compiler_m2c # 0
      THEN InsertAt(first,
                    s.line_compiler_m2c + 1
                      + (IF s.line_compiler_c < s.line_compiler_m2c THEN 1 ELSE 0),
                    [k |-> "stdlib", ind |-> Indent(lines, s),
                     sel |-> s.selector_m2c.txt,
                     pad |-> IF s.selector_m2c.txt # "" THEN s.selector_m2c.pad + 8 ELSE 0,
                     pre |-> FALSE])
      ELSE first

\* _process_section("global", attrs, lines): (lines, write_stdlib_to_cbc), or the
\* RuntimeError; path names the return statement taken
ProcessSection(stubReq, lines) ==
    LET s == Scan(lines) IN
    IF ~NeedsStdlib(stubReq, lines, s)
      THEN IF \E i \in DOMAIN lines : IsSysroot(lines[i])
             THEN [path |-> "sysroot", cbc |-> TRUE,
                   lines |-> DropSysroot(ReplaceFirstSysroot(lines))]
             ELSE [path |-> "none", cbc |-> FALSE, lines |-> lines]
    ELSE IF LineInsert(s) = 0
      THEN [path |-> "raise", cbc |-> FALSE, lines |-> lines]
    ELSE LET first == InsertAt(lines, LineInsert(s), ToInsert(lines, s))
             both == SecondInsert(lines, s, first)
         IN  [path |-> "insert",
              cbc |-> \E i \in DOMAIN both : IsSysroot(both[i]),
              lines |-> DropSysroot(both)]

RECURSIVE Flatten(_)
\* "".join(new_lines).splitlines(): the element with the extra "build:" is two lines
Flatten(lines) ==
    IF lines = <<>> THEN <<>>
    ELSE LET l == Head(lines) IN
         (IF l.pre THEN <<Line("build", IF l.ind >= 2 THEN l.ind - 2 ELSE 0, "", 0),
                          [l EXCEPT !.pre = FALSE]>>
          ELSE <<l>>) \o Flatten(Tail(lines))

\* filter() without the already_migrated test
FilterNoStdlibTest(lines) ==
    ~(\E i \in DOMAIN lines : lines[i].k \in CompilerKinds \/ IsSysroot(lines[i]))

\* StdlibMigrator.filter: TRUE when the recipe is not to be migrated
Filter(lines) ==
    LET already_migrated == \E i \in DOMAIN lines : lines[i].k = "stdlib"
        has_compiler == \E i \in DOMAIN lines : lines[i].k \in CompilerKinds
        has_sysroot == \E i \in DOMAIN lines : IsSysroot(lines[i])
    IN  already_migrated \/ ~(has_compiler \/ has_sysroot)

InitPatch ==
    /\ doc \in Docs
    /\ stub \in BOOLEAN
    /\ ppc = "start"
    /\ out = <<>>
    /\ cbc = FALSE
    /\ path = "none"
    /\ handleOf = SharedHandle
    /\ hasRcount = [h \in Handles |-> FALSE]
    /\ rcount = [h \in Handles |-> 0]
    /\ hasRdata = [h \in Handles |-> FALSE]
    /\ dheld = FALSE
    /\ pc = [o \in Owners |-> "idle"]
    /\ tmp = [o \in Owners |-> 0]
    /\ last = [o \in Owners |-> "none"]
    /\ hist = [o \in Owners |-> <<>>]
    /\ calls = [o \in Owners |-> 0]
    /\ ekind = "thread" /\ epc = "out" /\ PRLOCK = "DummyLock" /\ DRLOCK = "DummyLock"
    /\ wPRLOCK = "none" /\ wDRLOCK = "none" /\ exited = "none" /\ uses = 0
    /\ net = IdleNet /\ fetchLog = <<>>
    /\ urlIn = [tmpl |-> NoTmpl, context |-> <<>>]
    /\ urlOut = [tmpl |-> NoTmpl, hash |-> None, fetched |-> <<>>, done |-> FALSE]
    /\ engine = "v1" /\ given = NoGiven /\ jvars = <<>> /\ srcs = <<>>
    /\ old = NoDoc /\ vpc = "idle" /\ si = 0 /\ selsLeft = {}
    /\ updated = FALSE /\ didUpdate = FALSE /\ result = "pending"
    /\ ret = NoDoc /\ file = NoDoc /\ iters = <<>>

\* filter() returns True: migrate() is not called
FilterSkips ==
    /\ ppc = "start"
    /\ Filter(doc)
    /\ ppc' = "skipped"
    /\ UNCHANGED <<doc, stub, out, cbc, path>>
    /\ UNCHANGED notPatchVars

\* StdlibMigrator.migrate on a recipe without outputs: one section, "global"
Migrate ==
    /\ ppc = "start"
    /\ ~Filter(doc)
    /\ LET r == ProcessSection(stub, doc) IN
       /\ path' = r.path
       /\ IF r.path = "raise"
            THEN /\ ppc' = "raised"
                 /\ UNCHANGED <<out, cbc>>
            ELSE /\ ppc' = "migrated"
                 /\ out' = r.lines
                 /\ cbc' = r.cbc
    /\ UNCHANGED <<doc, stub>>
    /\ UNCHANGED notPatchVars

NextPatch == FilterSkips \/ Migrate

(***************************************************************************)
(* Part 5: executors.py, executor()                                        *)
(***************************************************************************)
Kinds == {"thread", "process", "dask", "dask-process", "dask-thread", "other"}

DaskKinds == {"dask", "dask-process", "dask-thread"}

\* no context is open; the module globals are the DummyLock objects of the
\* import
InitExec ==
    /\ ekind = "thread" /\ epc = "out"
    /\ PRLOCK = "DummyLock" /\ DRLOCK = "DummyLock"
    /\ wPRLOCK = "none" /\ wDRLOCK = "none"
    /\ exited = "none" /\ uses = 0
    /\ handleOf = SharedHandle
    /\ hasRcount = [h \in Handles |-> FALSE]
    /\ rcount = [h \in Handles |-> 0]
    /\ hasRdata = [h \in Handles |-> FALSE]
    /\ dheld = FALSE
    /\ pc = [o \in Owners |-> "idle"]
    /\ tmp = [o \in Owners |-> 0]
    /\ last = [o \in Owners |-> "none"]
    /\ hist = [o \in Owners |-> <<>>]
    /\ calls = [o \in Owners |-> 0]
    /\ doc = <<>> /\ stub = FALSE /\ ppc = "start" /\ out = <<>>
    /\ cbc = FALSE /\ path = "none"
    /\ net = IdleNet /\ fetchLog = <<>>
    /\ urlIn = [tmpl |-> NoTmpl, context |-> <<>>]
    /\ urlOut = [tmpl |-> NoTmpl, hash |-> None, fetched |-> <<>>, done |-> FALSE]
    /\ engine = "v1" /\ given = NoGiven /\ jvars = <<>> /\ srcs = <<>>
    /\ old = NoDoc /\ vpc = "idle" /\ si = 0 /\ selsLeft = {}
    /\ updated = FALSE /\ didUpdate = FALSE /\ result = "pending"
    /\ ret = NoDoc /\ file = NoDoc /\ iters = <<>>

\* `with executor(kind, ...)` up to its yield.  A kind that is not known
\* raises NotImplementedError.  'process': a pool whose workers run
\* _init_process when they start.  The dask kinds: client.run(_init_dask,
\* "cftick") sets DRLOCK where the workers live: in worker processes for
\* 'dask' and 'dask-process', in this process for 'dask-thread'.
ExecutorEnter(k) ==
    /\ epc = "out" /\ uses < MaxUses
    /\ uses' = uses + 1
    /\ ekind' = k
    /\ IF k = "other"
         THEN /\ exited' = "notimplemented"
              /\ UNCHANGED <<epc, DRLOCK, wPRLOCK, wDRLOCK>>
         ELSE /\ epc' = "in"
              /\ exited' = "none"
              /\ wPRLOCK' = IF k = "process" THEN "DummyLock" ELSE "none"
              /\ wDRLOCK' = IF k \in {"dask", "dask-process"} THEN "DaskRLock" ELSE "none"
              /\ DRLOCK' = IF k = "dask-thread" THEN "DaskRLock" ELSE DRLOCK
    /\ UNCHANGED PRLOCK
    /\ UNCHANGED notExecVars

\* _init_process(lock) in a worker process of the pool
InitProcess ==
    /\ epc = "in" /\ ekind = "process" /\ wPRLOCK = "DummyLock"
    /\ wPRLOCK' = "RLock"
    /\ UNCHANGED <<ekind, epc, PRLOCK, DRLOCK, wDRLOCK, exited, uses>>
    /\ UNCHANGED notExecVars

\* the body ends: the pool or the client and cluster are shut down, and with
\* them the worker processes; the statement after the with block puts the
\* DummyLock back
BodyReturns ==
    /\ epc = "in"
    /\ epc' = "out"
    /\ exited' = "normal"
    /\ wPRLOCK' = "none" /\ wDRLOCK' = "none"
    /\ PRLOCK' = IF ekind = "process" THEN "DummyLock" ELSE PRLOCK
    /\ DRLOCK' = IF ekind \in DaskKinds THEN "DummyLock" ELSE DRLOCK
    /\ UNCHANGED <<ekind, uses>>
    /\ UNCHANGED notExecVars

\* the body raises: the exception is thrown at the yield, the with blocks
\* shut the pool or the client and cluster down, and the exception leaves the
\* generator before the statement after the with block
BodyRaises ==
    /\ epc = "in"
    /\ epc' = "out"
    /\ exited' = "raised"
    /\ wPRLOCK' = "none" /\ wDRLOCK' = "none"
    /\ UNCHANGED <<ekind, uses, PRLOCK, DRLOCK>>
    /\ UNCHANGED notExecVars

NextExec ==
    \/ \E k \in Kinds : ExecutorEnter(k)
    \/ InitProcess
    \/ BodyReturns
    \/ BodyRaises

(***************************************************************************)
(* Part 3: migrators/version.py, URLs, rendering and fetching              *)
(*                                                                         *)
(* A URL template is [id, rw, vars]: id names the template text, rw is 0   *)
(* for the text of the recipe and i for its i-th rewrite, vars are the     *)
(* variables it references.  A rendered URL keeps the values it was        *)
(* rendered with; the hash of a URL is the token [kind "hash", url].       *)
(***************************************************************************)
\* jinja2.Template(tmpl, undefined=StrictUndefined).render(**context) raises
\* UndefinedError unless every variable has a value
Renders(t, context) == t.vars \subseteq DOMAIN context

\* _render_jinja2
RenderJinja2(t, context) ==
    [id |-> t.id, rw |-> t.rw,
     ver |-> IF "version" \in t.vars THEN context["version"] ELSE "-",
     name |-> IF "name" \in t.vars THEN context["name"] ELSE "-"]

Outcomes == {"ok", "notfound", "raise"}

\* _try_url_and_hash_it that answers with a hash whatever hash_url did
TryUrlAndHashItAnyway(url) == HashOf(url)

\* _try_url_and_hash_it: the hash, or None when hash_url returns None (not
\* found, timeout) or raises
TryUrlAndHashIt(url) ==
    IF net[<<url.id, url.rw>>] = "ok" THEN HashOf(url) ELSE None

\* gen_transformed_urls(url_tmpl): the rewrites of a template, in order
GenTransformedUrls(t) == [i \in 1..MaxRewrites |-> [t EXCEPT !.rw = i]]

RECURSIVE TryRewritesNoBreak(_, _, _, _, _)
\* the loop over the rewrites without its break
TryRewritesNoBreak(cands, i, context, prev, fetched) ==
    IF i > Len(cands) THEN [tmpl |-> prev.tmpl, hash |-> prev.hash, fetched |-> fetched]
    ELSE IF Renders(cands[i], context)
      THEN LET url == RenderJinja2(cands[i], context) IN
           TryRewritesNoBreak(cands, i + 1, context,
                              [tmpl |-> cands[i], hash |-> TryUrlAndHashIt(url)],
                              Append(fetched, url))
      ELSE TryRewritesNoBreak(cands, i + 1, context,
                              [tmpl |-> cands[i], hash |-> None], fetched)

RECURSIVE TryRewrites(_, _, _, _, _)
\* for new_url_tmpl in gen_transformed_urls(url_tmpl): ... if new_hash is not
\* None: break; prev holds new_url_tmpl and new_hash
TryRewrites(cands, i, context, prev, fetched) ==
    IF i > Len(cands) THEN [tmpl |-> prev.tmpl, hash |-> prev.hash, fetched |-> fetched]
    ELSE IF Renders(cands[i], context)
      THEN LET url == RenderJinja2(cands[i], context)
               h == TryUrlAndHashIt(url)
           IN  IF h # None
                 THEN [tmpl |-> cands[i], hash |-> h, fetched |-> Append(fetched, url)]
                 ELSE TryRewrites(cands, i + 1, context,
                                  [tmpl |-> cands[i], hash |-> None],
                                  Append(fetched, url))
      ELSE TryRewrites(cands, i + 1, context, [tmpl |-> cands[i], hash |-> None], fetched)

\* _get_new_url_tmpl_and_hash(url_tmpl, context, hash_type): the template and
\* hash returned, and the URLs fetched on the way
GetNewUrlTmplAndHash(url_tmpl, context) ==
    LET direct == IF Renders(url_tmpl, context)
                    THEN TryUrlAndHashIt(RenderJinja2(url_tmpl, context))
                    ELSE None
        fetched == IF Renders(url_tmpl, context)
                     THEN <<RenderJinja2(url_tmpl, context)>>
                     ELSE <<>>
    IN  IF direct # None
          THEN [tmpl |-> url_tmpl, hash |-> direct, fetched |-> fetched]
          ELSE TryRewrites(GenTransformedUrls(url_tmpl), 1, context,
                           [tmpl |-> NoTmpl, hash |-> None], fetched)

\* one call of _get_new_url_tmpl_and_hash on any template, context and network
InitUrl ==
    /\ net \in [NetKeys -> Outcomes]
    /\ \A k \in NetKeys : k[1] = "b" => net[k] = "notfound"
    /\ urlIn \in [tmpl : {Tmpl("a", {"version"}), Tmpl("a", {"version", "name"})},
                  context : {[n \in {"version"} |-> "1.3.0"],
                             [n \in Names |-> IF n = "version" THEN "1.3.0" ELSE "pkg"]}]
    /\ urlOut = [tmpl |-> NoTmpl, hash |-> None, fetched |-> <<>>, done |-> FALSE]
    /\ engine = "v1" /\ given = NoGiven /\ jvars = <<>> /\ srcs = <<>>
    /\ old = NoDoc /\ vpc = "idle" /\ si = 0 /\ selsLeft = {}
    /\ updated = FALSE /\ didUpdate = FALSE /\ result = "pending"
    /\ ret = NoDoc /\ file = NoDoc /\ iters = <<>>
    /\ fetchLog = <<>>
    /\ handleOf = SharedHandle
    /\ hasRcount = [h \in Handles |-> FALSE]
    /\ rcount = [h \in Handles |-> 0]
    /\ hasRdata = [h \in Handles |-> FALSE]
    /\ dheld = FALSE
    /\ pc = [o \in Owners |-> "idle"]
    /\ tmp = [o \in Owners |-> 0]
    /\ last = [o \in Owners |-> "none"]
    /\ hist = [o \in Owners |-> <<>>]
    /\ calls = [o \in Owners |-> 0]
    /\ ekind = "thread" /\ epc = "out" /\ PRLOCK = "DummyLock" /\ DRLOCK = "DummyLock"
    /\ wPRLOCK = "none" /\ wDRLOCK = "none" /\ exited = "none" /\ uses = 0
    /\ doc = <<>> /\ stub = FALSE /\ ppc = "start" /\ out = <<>>
    /\ cbc = FALSE /\ path = "none"

\* the call
ResolveUrl ==
    /\ ~urlOut.done
    /\ LET r == GetNewUrlTmplAndHash(urlIn.tmpl, urlIn.context) IN
       /\ urlOut' = [tmpl |-> r.tmpl, hash |-> r.hash, fetched |-> r.fetched,
                     done |-> TRUE]
       /\ fetchLog' = fetchLog \o r.fetched
    /\ UNCHANGED <<net, urlIn, migVars>>
    /\ UNCHANGED notVerVars

NextUrl == ResolveUrl

(***************************************************************************)
(* Part 4: migrators/version.py, one source entry                          *)
(*                                                                         *)
(* A mapping of the recipe (a source entry, the variable table) is the     *)
(* sequence of its keys in file order.  The key "url__###conda-selector### *)
(* __win" is the item with base "url" and selector "win".                  *)
(***************************************************************************)
HashType == "sha256"

OldVersion == "1.2.0"

NewVersion == "1.3.0"

CHECKSUM_NAMES == <<"hash_value", "hash", "hash_val", "sha256sum", "checksum">>

\* `selector in key`: a substring test on the whole key; of the selectors of
\* the recipes here "win" is inside "win64", and none is inside a key base
SelectorIn(selector, keysel) ==
    /\ keysel # NoSelector
    /\ \/ selector = keysel
       \/ selector = "win" /\ keysel = "win64"

HasKey(d, base, sel) == \E i \in DOMAIN d : d[i].base = base /\ d[i].sel = sel

KeyIdx(d, base, sel) == CHOOSE i \in DOMAIN d : d[i].base = base /\ d[i].sel = sel

Largest(S) == CHOOSE i \in S : \A j \in S : j <= i

\* _gen_key_selector(dct, key): the places of the keys that are key or key
\* with a selector
GenKeySelector(d, base) == {i \in DOMAIN d : d[i].base = base}

\* url_key = 'url', hash_key = hash_type; for key in _gen_key_selector(src,
\* ...): if selector in key: the key = key.  The selector part of that key.
KeySel(src, base, selector) ==
    LET m == {i \in GenKeySelector(src, base) :
                selector # NoSelector /\ SelectorIn(selector, src[i].sel)}
    IN  IF m = {} THEN NoSelector ELSE src[Largest(m)].sel

\* _compile_all_selectors
CompileAllSelectors(jv, src) ==
    {NoSelector} \cup {jv[i].sel : i \in DOMAIN jv} \cup {src[i].sel : i \in DOMAIN src}

\* the jinja2 context of a selector: the unqualified variables and those whose
\* key has the selector in it, later keys over earlier ones
Context(jv, selector) ==
    LET applies(i) == \/ jv[i].sel = NoSelector
                      \/ selector # NoSelector /\ SelectorIn(selector, jv[i].sel)
        at(n) == {i \in DOMAIN jv : jv[i].base = n /\ applies(i)}
    IN  [n \in {jv[i].base : i \in {j \in DOMAIN jv : applies(j)}} |->
           jv[Largest(at(n))].hv.s]

\* JINJA2_VAR_RE.findall over the URL templates and the hash field
Jinja2VarSet(urlItem, hashItem) ==
    UNION {urlItem.urls[k].vars : k \in DOMAIN urlItem.urls}
      \cup (IF hashItem.hv.kind = "tmpl" THEN {hashItem.hv.s} ELSE {})

RECURSIVE TryUrlList(_, _, _, _)
\* for url_ind, url_tmpl in enumerate(src[url_key]): ... if new_hash is not
\* None: break; a plain string is a list of one
TryUrlList(urls, k, context, fetched) ==
    LET r == GetNewUrlTmplAndHash(urls[k], context) IN
    IF r.hash # None \/ k = Len(urls)
      THEN [ind |-> k, tmpl |-> r.tmpl, hash |-> r.hash, fetched |-> fetched \o r.fetched]
      ELSE TryUrlList(urls, k + 1, context, fetched \o r.fetched)

SetHv(d, base, sel, hv) == [d EXCEPT ![KeyIdx(d, base, sel)].hv = hv]

\* _try_replace_hash that, finding no variable for a hash given as a template,
\* puts the hash into the field and still reports failure
TryReplaceHashIntoField(hashsel, jv, src, selector, new_hash) ==
    LET cnames == Append(CHECKSUM_NAMES, HashType)
        found == {c \in DOMAIN cnames :
                    \/ selector # NoSelector /\ HasKey(jv, cnames[c], selector)
                    \/ HasKey(jv, cnames[c], NoSelector)}
        c == CHOOSE x \in found : \A y \in found : x <= y
        sel == IF selector # NoSelector /\ HasKey(jv, cnames[c], selector)
                 THEN selector ELSE NoSelector
    IN  IF src[KeyIdx(src, HashType, hashsel)].hv.kind = "tmpl" /\ found # {}
          THEN [replaced |-> TRUE, jv |-> SetHv(jv, cnames[c], sel, new_hash),
                src |-> src, wrote |-> "jvar", wbase |-> cnames[c], wsel |-> sel]
          ELSE [replaced |-> src[KeyIdx(src, HashType, hashsel)].hv.kind # "tmpl",
                jv |-> jv, src |-> SetHv(src, HashType, hashsel, new_hash),
                wrote |-> "src", wbase |-> HashType, wsel |-> hashsel]

\* _try_replace_hash
TryReplaceHash(hashsel, jv, src, selector, new_hash) ==
    IF src[KeyIdx(src, HashType, hashsel)].hv.kind = "tmpl"
      THEN LET cnames == Append(CHECKSUM_NAMES, HashType)
               found == {c \in DOMAIN cnames :
                           \/ selector # NoSelector /\ HasKey(jv, cnames[c], selector)
                           \/ HasKey(jv, cnames[c], NoSelector)}
           IN  IF found = {}
                 THEN [replaced |-> FALSE, jv |-> jv, src |-> src,
                       wrote |-> "none", wbase |-> "", wsel |-> ""]
                 ELSE LET c == CHOOSE x \in found : \A y \in found : x <= y
                          sel == IF selector # NoSelector /\ HasKey(jv, cnames[c], selector)
                                   THEN selector ELSE NoSelector
                      IN  [replaced |-> TRUE, jv |-> SetHv(jv, cnames[c], sel, new_hash),
                           src |-> src, wrote |-> "jvar", wbase |-> cnames[c], wsel |-> sel]
      ELSE [replaced |-> TRUE, jv |-> jv, src |-> SetHv(src, HashType, hashsel, new_hash),
            wrote |-> "src", wbase |-> HashType, wsel |-> hashsel]

\* what one iteration did, for the properties
Iter(i, selector, kind, fail) ==
    [i |-> i, sel |-> selector, kind |-> kind, fail |-> fail, urlsel |-> "", ind |-> 0,
     tmpl |-> NoTmpl, hash |-> None, context |-> <<>>, wrote |-> "none",
     wbase |-> "", wsel |-> ""]

\* one iteration of `for selector in possible_selectors` on source entry i:
\* the table and the entry after it, the URLs fetched, what it leaves in
\* updated_version (keep: the value to and into it).  visitedFirst tells, when
\* the variable loop meets an undeclared variable, whether a variable missing
\* from the context alone was visited before it (the loop is over a set).
IterateSelector(jv, src, i, selector, visitedFirst) ==
    LET urlsel == KeySel(src, "url", selector)
        hashsel == KeySel(src, HashType, selector)
        same(kind, keep) == [jv |-> jv, src |-> src, fetched |-> <<>>, keep |-> keep,
                             rec |-> Iter(i, selector, kind, ~keep)]
    IN
    IF ~HasKey(src, "url", urlsel) THEN same("nourl", TRUE)
    ELSE IF ~HasKey(src, HashType, hashsel) THEN same("nohash", TRUE)
    ELSE
    LET urlItem == src[KeyIdx(src, "url", urlsel)]
        hashItem == src[KeyIdx(src, HashType, hashsel)]
        context == Context(jv, selector)
        varset == Jinja2VarSet(urlItem, hashItem)
        undeclared == {v \in varset : GenKeySelector(jv, v) = {}}
        missing == {v \in varset \ undeclared : v \notin DOMAIN context}
        fail == undeclared # {}
        skip_this_selector == IF fail THEN missing # {} /\ visitedFirst
                                      ELSE missing # {}
    IN
    IF skip_this_selector THEN same("skip", ~fail)
    ELSE
    LET t == TryUrlList(urlItem.urls, 1, context, <<>>)
        rep == TryReplaceHash(hashsel, jv, src, selector, t.hash)
        base == [Iter(i, selector, "failed", fail) EXCEPT
                   !.urlsel = urlsel, !.ind = t.ind, !.tmpl = t.tmpl,
                   !.context = context]
    IN
    IF t.hash = None
      THEN [jv |-> jv, src |-> src, fetched |-> t.fetched, keep |-> FALSE, rec |-> base]
    ELSE IF ~rep.replaced
      THEN [jv |-> rep.jv, src |-> rep.src, fetched |-> t.fetched, keep |-> FALSE,
            rec |-> [base EXCEPT !.kind = "noreplace"]]
    ELSE [jv |-> rep.jv,
          src |-> [rep.src EXCEPT ![KeyIdx(src, "url", urlsel)].urls[t.ind] = t.tmpl],
          fetched |-> t.fetched, keep |-> ~fail,
          rec |-> [base EXCEPT !.kind = "stored", !.hash = t.hash,
                               !.wrote = rep.wrote, !.wbase = rep.wbase,
                               !.wsel = rep.wsel]]

\* _try_to_update_version up to its loop: an entry without any key with 'url'
\* in it returns False at once
AnyUrlKey(src) == \E k \in DOMAIN src : src[k].base \in {"url", "git_url"}

\* _recipe_has_git_url
RecipeHasGitUrl(ss) == \E i \in DOMAIN ss : GenKeySelector(ss[i], "git_url") # {}

\* the recipe in memory, as dump() writes it
Dump(jv, ss, b) == [some |-> TRUE, jvars |-> jv, srcs |-> ss, build |-> b]

(***************************************************************************)
(* update_recipe/v2/version.py, one source                                 *)
(***************************************************************************)
DelKey(d, base) == SelectSeq(d, LAMBDA e : e.base # base)

\* source[key] = value: in place, or a new key at the end
SetKey(d, base, hv) ==
    IF HasKey(d, base, NoSelector) THEN SetHv(d, base, NoSelector, hv)
    ELSE Append(d, Item(base, NoSelector, <<>>, hv))

\* update_hash(source, url, hash_): the source after it, whether HashError was
\* raised, and the URLs fetched
UpdateHash(source, url, hash_) ==
    LET hash_type == IF hash_ # NoGiven THEN hash_.type ELSE "sha256"
        other == IF hash_type = "sha256" THEN "md5" ELSE "sha256"
        deleted == DelKey(source, other)
        new_hash == TryUrlAndHashIt(url)
    IN  IF hash_ # NoGiven
          THEN [source |-> SetKey(deleted, hash_.type, hash_.hv), raised |-> FALSE,
                fetched |-> <<>>, hash |-> hash_.hv, wbase |-> hash_.type]
        ELSE IF new_hash = None
          THEN [source |-> deleted, raised |-> TRUE, fetched |-> <<url>>,
                hash |-> None, wbase |-> ""]
        ELSE [source |-> SetKey(deleted, "sha256", new_hash), raised |-> FALSE,
              fetched |-> <<url>>, hash |-> new_hash, wbase |-> "sha256"]

(***************************************************************************)
(* The recipes                                                             *)
(***************************************************************************)
TmplA == Tmpl("a", {"version"})
TmplAN == Tmpl("a", {"version", "name"})
TmplB == Tmpl("b", {"version"})
TmplFixed == Tmpl("b", {})

Url(sel, urls) == Item("url", sel, urls, None)
Lit(base, sel) == Item(base, sel, <<>>, Str("0ld"))
Ref(base, sel, v) == Item(base, sel, <<>>, JinjaRef(v))
Var(base, sel, x) == Item(base, sel, <<>>, Str(x))

\* source entries of a meta.yaml; the last but one has the hash its URL has
\* under the new version
SourceShapes ==
    { <<Url("", <<TmplA>>), Lit("sha256", "")>>,
      <<Url("", <<TmplAN>>), Lit("sha256", "")>>,
      <<Url("", <<TmplA>>), Ref("sha256", "", "hash_value")>>,
      <<Url("", <<TmplAN>>), Ref("sha256", "", "myhash")>>,
      <<Url("", <<TmplA>>), Ref("sha256", "", "sha256")>>,
      <<Url("", <<TmplAN>>), Lit("md5", "")>>,
      <<Url("", <<TmplA>>), Lit("sha256", ""),
        Url("win", <<TmplB>>), Lit("sha256", "win")>>,
      <<Url("win", <<TmplA>>), Lit("sha256", "win"),
        Url("win64", <<TmplB>>), Lit("sha256", "win64")>>,
      <<Url("", <<TmplA, TmplB>>), Lit("sha256", "")>>,
      <<Url("", <<TmplA>>),
        Item("sha256", "", <<>>,
             HashOf(RenderJinja2(TmplA, [n \in {"version"} |-> NewVersion])))>>,
      <<Item("git_url", "", <<TmplFixed>>, None)>> }

\* variable tables of a meta.yaml; the second is at the new version already,
\* the last but one has a plain conventional hash name next to the algorithm's
\* name under a selector
TableShapes ==
    { <<Var("version", "", OldVersion)>>,
      <<Var("version", "", NewVersion)>>,
      <<Var("version", "", OldVersion), Var("name", "", "pkg")>>,
      <<Var("version", "", OldVersion), Var("name", "win", "pkg")>>,
      <<Var("version", "", OldVersion), Var("name", "", "pkg"),
        Var("hash_value", "", "0ld")>>,
      <<Var("version", "", OldVersion), Var("name", "win", "pkg"),
        Var("hash_value", "", "0ld")>>,
      <<Var("version", "", OldVersion), Var("name", "", "pkg"),
        Var("hash_value", "win", "0ld")>>,
      <<Var("version", "", OldVersion), Var("name", "", "pkg"),
        Var("name", "win", "pkgw")>>,
      <<Var("version", "", OldVersion), Var("hash_value", "", "0ld"),
        Var("sha256", "win", "0ld")>>,
      <<Var("name", "", "pkg"), Var("hash_value", "", "0ld")>> }

\* sources of a recipe.yaml
SourceShapesV2 ==
    { <<Url("", <<TmplA>>), Lit("sha256", "")>>,
      <<Url("", <<TmplA>>), Lit("md5", "")>>,
      <<Url("", <<TmplFixed>>), Lit("sha256", "")>>,
      <<Url("", <<TmplA, TmplB>>), Lit("sha256", ""), Lit("md5", "")>>,
      <<Item("git", "", <<TmplFixed>>, None)>> }

\* contexts of a recipe.yaml; the empty one is a recipe without context
TableShapesV2 ==
    { <<Var("version", "", OldVersion)>>, <<Var("name", "", "pkg")>>, <<>> }

Given(type) == [type |-> type, hv |-> [kind |-> "given", s |-> "", url |-> NoUrl]]

\* the networks: of the candidates of a template at most one can be fetched
NetOf(fa, fb) ==
    [k \in NetKeys |-> IF \/ k[1] = "a" /\ k[2] = fa
                          \/ k[1] = "b" /\ k[2] = fb
                         THEN "ok" ELSE "notfound"]

Nets == {NetOf(fa, fb) : fa \in 0..(MaxRewrites + 1), fb \in {0, MaxRewrites + 1}}

\* the entries after the first of a meta.yaml: fetched and written in place,
\* hash in a variable, no sha256 key
MoreShapes ==
    { <<Url("", <<TmplA>>), Lit("sha256", "")>>,
      <<Url("", <<TmplA>>), Ref("sha256", "", "hash_value")>>,
      <<Url("", <<TmplAN>>), Lit("md5", "")>> }

\* the sources after the first of a recipe.yaml
MoreShapesV2 ==
    { <<Url("", <<TmplA>>), Lit("sha256", "")>>,
      <<Url("", <<TmplA>>), Lit("md5", "")>>,
      <<Url("", <<TmplFixed>>), Lit("sha256", "")>> }

\* recipes of up to MaxSources entries
Recipes(first, more) ==
    {<<f>> \o r : f \in first,
                  r \in UNION {[1..n -> more] : n \in 0..(MaxSources - 1)}}

(***************************************************************************)
(* Version.migrate and update_version                                     *)
(***************************************************************************)
\* a recipe is on disk, and one of the two engines is about to be called on it
InitVersion ==
    /\ engine \in {"v1", "v2"}
    /\ given \in IF engine = "v1" THEN {NoGiven}
                 ELSE {NoGiven, Given("sha256"), Given("md5")}
    /\ jvars \in IF engine = "v1" THEN TableShapes ELSE TableShapesV2
    /\ srcs \in IF engine = "v1" THEN Recipes(SourceShapes, MoreShapes)
                ELSE Recipes(SourceShapesV2, MoreShapesV2)
    /\ net \in Nets
    /\ old = Dump(jvars, srcs, 1)
    /\ file = old
    /\ vpc = "start" /\ si = 0 /\ selsLeft = {}
    /\ updated = FALSE /\ didUpdate = FALSE /\ result = "pending"
    /\ ret = NoDoc /\ iters = <<>>
    /\ fetchLog = <<>>
    /\ urlIn = [tmpl |-> NoTmpl, context |-> <<>>]
    /\ urlOut = [tmpl |-> NoTmpl, hash |-> None, fetched |-> <<>>, done |-> FALSE]
    /\ handleOf = SharedHandle
    /\ hasRcount = [h \in Handles |-> FALSE]
    /\ rcount = [h \in Handles |-> 0]
    /\ hasRdata = [h \in Handles |-> FALSE]
    /\ dheld = FALSE
    /\ pc = [o \in Owners |-> "idle"]
    /\ tmp = [o \in Owners |-> 0]
    /\ last = [o \in Owners |-> "none"]
    /\ hist = [o \in Owners |-> <<>>]
    /\ calls = [o \in Owners |-> 0]
    /\ ekind = "thread" /\ epc = "out" /\ PRLOCK = "DummyLock" /\ DRLOCK = "DummyLock"
    /\ wPRLOCK = "none" /\ wDRLOCK = "none" /\ exited = "none" /\ uses = 0
    /\ doc = <<>> /\ stub = FALSE /\ ppc = "start" /\ out = <<>>
    /\ cbc = FALSE /\ path = "none"

migFixed == <<net, urlIn, urlOut, engine, given, old>>

\* _try_to_update_version(cmeta, src, hash_type) is entered for entry i
EnterSource(jv, i) ==
    /\ si' = i
    /\ updated' = AnyUrlKey(srcs[i])
    /\ selsLeft' = IF AnyUrlKey(srcs[i]) THEN CompileAllSelectors(jv, srcs[i]) ELSE {}

\* Version.migrate up to the loop over the sources: a git_url or a version
\* that is not a variable returns {}; else the version is replaced (the new
\* version has no "_", so the replacement for R URLs leaves it as it is)
VersionMigrateStart ==
    /\ engine = "v1" /\ vpc = "start"
    /\ IF RecipeHasGitUrl(srcs) \/ ~HasKey(jvars, "version", NoSelector)
         THEN /\ result' = "empty" /\ vpc' = "done"
              /\ UNCHANGED <<jvars, si, updated, selsLeft, didUpdate>>
         ELSE /\ jvars' = SetHv(jvars, "version", NoSelector, Str(NewVersion))
              /\ didUpdate' = TRUE
              /\ EnterSource(jvars', 1)
              /\ vpc' = "source"
              /\ UNCHANGED result
    /\ UNCHANGED <<migFixed, srcs, ret, file, iters, fetchLog>>
    /\ UNCHANGED notVerVars

\* one iteration of the loop over possible_selectors, on any selector not yet
\* visited (the loop is over a set)
SelectorIteration ==
    /\ engine = "v1" /\ vpc = "source"
    /\ \E selector \in selsLeft, visitedFirst \in BOOLEAN :
         LET r == IterateSelector(jvars, srcs[si], si, selector, visitedFirst) IN
         /\ jvars' = r.jv
         /\ srcs' = [srcs EXCEPT ![si] = r.src]
         /\ fetchLog' = fetchLog \o r.fetched
         /\ updated' = (updated /\ r.keep)
         /\ selsLeft' = selsLeft \ {selector}
         /\ iters' = Append(iters, r.rec)
    /\ UNCHANGED <<migFixed, vpc, si, didUpdate, result, ret, file>>
    /\ UNCHANGED notVerVars

\* _try_to_update_version returns: did_update &= ..., and the next entry
SourceReturn ==
    /\ engine = "v1" /\ vpc = "source" /\ selsLeft = {}
    /\ didUpdate' = (didUpdate /\ updated)
    /\ IF si < Len(srcs)
         THEN EnterSource(jvars, si + 1) /\ UNCHANGED vpc
         ELSE vpc' = "finish" /\ UNCHANGED <<si, updated, selsLeft>>
    /\ UNCHANGED <<migFixed, jvars, srcs, result, ret, file, iters, fetchLog>>
    /\ UNCHANGED notVerVars

\* the test for a change without the old version put back
RecipeChangedWithVersion(jv, ss) == Dump(jv, ss, old.build) # old

\* cmeta.jinja2_vars['version'] = old_version; ...; s.read() == old_meta_yaml:
\* the recipe changed if it is not the old one once the old version is put back
RecipeChanged(jv, ss) ==
    LET old_version == old.jvars[KeyIdx(old.jvars, "version", NoSelector)].hv
    IN  Dump(SetHv(jv, "version", NoSelector, old_version), ss, old.build) # old

\* the end of Version.migrate: a recipe that did not change is a failure; else
\* meta.yaml is written and set_build_number resets the build number
VersionMigrateFinish ==
    /\ engine = "v1" /\ vpc = "finish"
    /\ IF didUpdate /\ RecipeChanged(jvars, srcs)
             THEN /\ file' = Dump(jvars, srcs, 0)
                  /\ result' = "muid"
                  /\ UNCHANGED didUpdate
             ELSE /\ result' = "empty"
                  /\ didUpdate' = FALSE
                  /\ UNCHANGED file
    /\ vpc' = "done"
    /\ UNCHANGED <<migFixed, jvars, srcs, si, selsLeft, updated, ret, iters, fetchLog>>
    /\ UNCHANGED notVerVars

\* update_version up to its loop: no context or no version in it is an error
UpdateVersionStart ==
    /\ engine = "v2" /\ vpc = "start"
    /\ IF ~HasKey(jvars, "version", NoSelector)
         THEN /\ result' = "empty" /\ vpc' = "done"
              /\ UNCHANGED <<jvars, si, didUpdate>>
         ELSE /\ jvars' = SetHv(jvars, "version", NoSelector, Str(NewVersion))
              /\ didUpdate' = TRUE
              /\ si' = 1
              /\ vpc' = "source"
              /\ UNCHANGED result
    /\ UNCHANGED <<migFixed, srcs, selsLeft, updated, ret, file, iters, fetchLog>>
    /\ UNCHANGED notVerVars

\* one turn of `for source in get_all_sources(data)`
UpdateVersionSource ==
    /\ engine = "v2" /\ vpc = "source" /\ si <= Len(srcs)
    /\ LET source == srcs[si]
           url == source[KeyIdx(source, "url", NoSelector)].urls[1]
           old_rendered_url == RenderJinja2(url, Context(old.jvars, NoSelector))
           rendered_url == RenderJinja2(url, Context(jvars, NoSelector))
           u == UpdateHash(source, rendered_url, given)
           rec(kind) == [Iter(si, NoSelector, kind, FALSE) EXCEPT
                           !.ind = 1, !.tmpl = url,
                           !.context = Context(jvars, NoSelector)]
       IN  IF ~HasKey(source, "url", NoSelector)
             THEN /\ iters' = Append(iters, Iter(si, NoSelector, "nourl", FALSE))
                  /\ UNCHANGED <<srcs, fetchLog, didUpdate>>
           ELSE IF old_rendered_url = rendered_url
             THEN /\ iters' = Append(iters, rec("unchanged"))
                  /\ UNCHANGED <<srcs, fetchLog, didUpdate>>
           ELSE /\ srcs' = [srcs EXCEPT ![si] = u.source]
                /\ fetchLog' = fetchLog \o u.fetched
                /\ didUpdate' = (didUpdate /\ ~u.raised)
                /\ iters' = Append(iters,
                     IF u.raised THEN rec("failed")
                     ELSE [rec("stored") EXCEPT !.hash = u.hash, !.wrote = "src",
                                                !.wbase = u.wbase])
    /\ si' = si + 1
    /\ UNCHANGED <<migFixed, jvars, vpc, selsLeft, updated, result, ret, file>>
    /\ UNCHANGED notVerVars

\* update_version returns: None if there were errors, else the dumped recipe
UpdateVersionReturn ==
    /\ engine = "v2" /\ vpc = "source" /\ si > Len(srcs)
    /\ IF didUpdate
         THEN result' = "doc" /\ ret' = Dump(jvars, srcs, old.build)
         ELSE result' = "empty" /\ UNCHANGED ret
    /\ vpc' = "done"
    /\ UNCHANGED <<migFixed, jvars, srcs, si, selsLeft, updated, didUpdate, file,
                   iters, fetchLog>>
    /\ UNCHANGED notVerVars

NextVersion ==
    \/ VersionMigrateStart
    \/ SelectorIteration
    \/ SourceReturn
    \/ VersionMigrateFinish
    \/ UpdateVersionStart
    \/ UpdateVersionSource
    \/ UpdateVersionReturn


(***************************************************************************)
(* Specifications                                                          *)
(***************************************************************************)
SpecLock == InitLock /\ [][NextLock]_vars

SpecPatch == InitPatch /\ [][NextPatch]_vars

SpecUrl == InitUrl /\ [][NextUrl]_vars

SpecVersion == InitVersion /\ [][NextVersion]_vars

SpecExec == InitExec /\ [][NextExec]_vars

(***************************************************************************)
(* Properties of DaskRLock                                                 *)
(***************************************************************************)
Count(s, e) == Cardinality({i \in DOMAIN s : s[i] = e})

\* owner o has more successful acquires than successful releases
Holds(o) == Count(hist[o], <<"acquire", "ok">>) > Count(hist[o], <<"release", "ok">>)

AcqAcqRel == << <<"acquire", "ok">>, <<"acquire", "ok">>, <<"release", "ok">> >>

\* C1: once an owner has completed acquire, acquire, release (its second
\* release has not completed), no other owner holds a successful acquire,
\* whether the two owners use one handle object or one each.
C1_SecondOwnerExcluded ==
    \A a \in Owners : \A b \in Owners \ {a} :
        hist[a] = AcqAcqRel => ~Holds(b)

\* C2: a release() that finds the recursion counter absent or zero raises
\* RuntimeError and changes neither the counter nor the underlying lock.
C2_ReleaseUnheldRaises ==
    [][\A o \in Owners :
         (/\ pc[o] = "r_check"
          /\ pc'[o] # "r_check"
          /\ (~hasRcount[handleOf[o]] \/ rcount[handleOf[o]] = 0))
         => (/\ pc'[o] = "idle"
             /\ last'[o] = "RuntimeError"
             /\ hist'[o] = Append(hist[o], <<"release", "RuntimeError">>)
             /\ UNCHANGED <<hasRcount, rcount, hasRdata, dheld>>)]_vars

\* an owner acquired, released, and released once more: the last one raised
C2_Witness ==
    \E o \in Owners :
        /\ hist[o] = << <<"acquire", "ok">>, <<"release", "ok">>,
                        <<"release", "RuntimeError">> >>
        /\ rcount[handleOf[o]] = 0
        /\ ~dheld

\* no other owner has called into the handle object of owner o
UsedOnlyBy(o) ==
    \A p \in Owners \ {o} : handleOf[p] = handleOf[o] => calls[p] = 0

\* completed acquires of owner o that are not yet matched by a release
Depth(o) == Count(hist[o], <<"acquire", "ok">>) - Count(hist[o], <<"release", "ok">>)

\* between the calls of a sole owner the counter is the nesting depth, and
\* the distributed lock is held as long as the depth is positive
C17_CounterIsDepth ==
    \A o \in Owners :
        UsedOnlyBy(o) =>
          LET h == handleOf[o] IN
          /\ rcount[h] >= 0
          /\ Depth(o) >= 0
          /\ pc[o] = "idle" =>
                /\ rcount[h] = Depth(o)
                /\ hasRdata[h] <=> Depth(o) > 0
                /\ Depth(o) > 0 => dheld
                /\ last[o] \in {"none", "ok", "RuntimeError"}

\* the steps of a sole owner: the counter goes up and down by one, the
\* distributed lock is taken in the acquire that finds depth 0 and in no
\* other, and given back in the release that finds depth 1 and in no other
C17_UnderlyingAtOutermost ==
    \A o \in Owners :
        UsedOnlyBy(o) =>
          LET h == handleOf[o] IN
          /\ (pc[o] = "a_write" /\ pc'[o] = "a_test") =>
                rcount'[h] = Depth(o) + 1
          /\ (pc[o] = "a_test" /\ pc'[o] # "a_test") =>
                (pc'[o] = "a_super" <=> Depth(o) = 0)
          /\ (pc[o] = "a_super" /\ pc'[o] = "a_ret") =>
                ~dheld /\ dheld' /\ Depth(o) = 0
          /\ (pc[o] = "a_ret" /\ pc'[o] = "idle") =>
                last'[o] = "ok" /\ dheld
          /\ (pc[o] = "r_write" /\ pc'[o] = "r_test") =>
                rcount'[h] = Depth(o) - 1
          /\ (pc[o] = "r_test" /\ pc'[o] = "idle") =>
                /\ last'[o] = "ok"
                /\ dheld
                /\ ~dheld' <=> Depth(o) = 1

\* C17: for a DaskRLock used by one owner the recursion counter is never
\* negative and equals the nesting depth, the underlying distributed lock is
\* acquired exactly in the acquire that takes the counter from 0 to 1 and
\* released exactly in the release that takes it from 1 to 0, and it is still
\* held after every release but the last.
C17_SoleOwnerCounts == []C17_CounterIsDepth /\ [][C17_UnderlyingAtOutermost]_vars

\* a sole owner has completed acquire, acquire, release, release: the counter
\* is back at zero and the distributed lock is free
C17_Witness ==
    \E o \in Owners :
        /\ UsedOnlyBy(o)
        /\ hist[o] = << <<"acquire", "ok">>, <<"acquire", "ok">>,
                        <<"release", "ok">>, <<"release", "ok">> >>
        /\ rcount[handleOf[o]] = 0
        /\ ~hasRdata[handleOf[o]]
        /\ ~dheld

(***************************************************************************)
(* Properties of the stdlib patcher                                        *)
(***************************************************************************)
Max(S) == CHOOSE x \in S : \A y \in S : y <= x

\* the lines the scan reads: up to and including the first test: header
Scanned(d) ==
    LET tests == {i \in DOMAIN d : d[i].k = "test"} IN
    IF tests = {} THEN DOMAIN d ELSE {i \in DOMAIN d : \A t \in tests : i <= t}

\* the number (from 0) of the last scanned line of kind k, 0 when there is none
LastOf(d, k) == Max({0} \cup {i - 1 : i \in {j \in Scanned(d) : d[j].k = k}})

\* the selector of the last scanned line of kind k, "" when there is none
LastSel(d, k) ==
    LET at == {j \in Scanned(d) : d[j].k = k} IN
    IF at = {} THEN "" ELSE d[Max(at)].sel

StdlibAt(o) == {j \in DOMAIN o : o[j].k = "stdlib"}

QualifiedCompilers(d) == {i \in DOMAIN d : d[i].k \in CompilerKinds /\ d[i].sel # ""}

\* an ordinary section: one build: header, on the second line, the compiler
\* declarations in one block right below it, then a run: header
BuildBlock(d) ==
    LET comp == {i \in DOMAIN d : d[i].k \in CompilerKinds} IN
    /\ Len(d) >= 4
    /\ {i \in DOMAIN d : d[i].k = "build"} = {2}
    /\ comp # {}
    /\ comp = 3..Max(comp)
    /\ Max(comp) < Len(d)
    /\ d[Max(comp) + 1].k = "run"
    /\ \A i \in DOMAIN d : d[i].k \notin {"nonreq", "stdlib", "test", "host"}

\* C4 as claimed: whatever migrate writes for an accepted recipe is rejected
\* by filter.
C4_OutputRejected == ppc = "migrated" => Filter(Flatten(out))

\* C4: what migrate writes for an accepted recipe is rejected by filter, or it
\* is the recipe as it was read.
C4_ChangedOutputRejected ==
    ppc = "migrated" => (Filter(Flatten(out)) \/ Flatten(out) = doc)

\* a recipe was patched and filter rejects the result
C4_Witness ==
    /\ ppc = "migrated"
    /\ ~Filter(doc)
    /\ Flatten(out) # doc
    /\ Filter(Flatten(out))

C6_InsertedAfterOwnCompiler ==
    (/\ ppc = "migrated"
     /\ path = "insert"
     /\ BuildBlock(doc)
     /\ LastOf(doc, "cc") # 0)
    => /\ \A j \in StdlibAt(out) :
            /\ j > 1
            /\ out[j - 1].k \in CompilerKinds
            /\ out[j].ind = out[j - 1].ind
            /\ out[j].sel = out[j - 1].sel
       /\ \E j \in StdlibAt(out) : j > 1 /\ out[j - 1].k = "cc"
       /\ LastOf(doc, "m2c") # 0 => \E j \in StdlibAt(out) : j > 1 /\ out[j - 1].k = "m2c"

\* an ordinary section with a plain-C compiler in its build requirements, no
\* host: header and no stdlib declaration
ScenarioA(d) == BuildBlock(d) /\ \E i \in DOMAIN d : d[i].k = "cc"

\* C7: in scenario A _process_section succeeds and its output has a new host:
\* header directly after the compiler line, followed by the stdlib declaration
\* at the compiler's indentation.
C7_HostSectionAdded ==
    (ppc # "start" /\ ScenarioA(doc))
    => /\ ppc = "migrated"
       /\ LET o == Flatten(out) IN
          \E j \in DOMAIN o :
             /\ j + 2 <= Len(o)
             /\ o[j].k = "cc"
             /\ o[j + 1].k = "host"
             /\ o[j + 2].k = "stdlib"
             /\ o[j + 2].ind = o[j].ind

\* C18: after the scan the recorded build: index is that of the last build:
\* header read, or 0 when there is none or when the line right after that
\* header is a non-requirement key; a non-requirement key further down does
\* not reset it.
C18_OnlyNextLineInvalidates ==
    ppc \in {"migrated", "raised"} =>
      LET b == LastOf(doc, "build")
          spurious == /\ b # 0
                      /\ b + 2 \in Scanned(doc)
                      /\ doc[b + 2].k = "nonreq"
      IN  Scan(doc).line_build = (IF spurious THEN 0 ELSE b)

(***************************************************************************)
(* Properties of the URL resolution                                        *)
(***************************************************************************)
\* the candidates in the order of the claim: the template of the recipe, then
\* its rewrites
Candidates == <<urlIn.tmpl>> \o GenTransformedUrls(urlIn.tmpl)

CandidateUrl(i) == RenderJinja2(Candidates[i], urlIn.context)

Succeeds(i) ==
    /\ Renders(Candidates[i], urlIn.context)
    /\ net[<<Candidates[i].id, Candidates[i].rw>>] = "ok"

\* the renderable candidates among the first n, rendered, in order
RECURSIVE Attempted(_)
Attempted(n) ==
    IF n = 0 THEN <<>>
    ELSE IF Renders(Candidates[n], urlIn.context)
      THEN Append(Attempted(n - 1), CandidateUrl(n))
      ELSE Attempted(n - 1)

\* C9: the candidates are fetched in order, the template of the recipe first;
\* a candidate that does not render, is not found or raises only passes the
\* turn to the next one; nothing is fetched after the first success; the
\* template returned is the one whose fetch succeeded, with the hash of its
\* URL; when all fail the hash is None.
C9_CandidatesInOrder ==
    urlOut.done =>
      IF \E i \in 1..Len(Candidates) : Succeeds(i)
        THEN LET f == CHOOSE i \in 1..Len(Candidates) :
                        Succeeds(i) /\ \A j \in 1..(i - 1) : ~Succeeds(j)
             IN  /\ urlOut.tmpl = Candidates[f]
                 /\ urlOut.hash = HashOf(CandidateUrl(f))
                 /\ urlOut.fetched = Attempted(f)
        ELSE /\ urlOut.hash = None
             /\ urlOut.fetched = Attempted(Len(Candidates))

\* the template raises, its first rewrite is not found, the second is fetched
C9_Witness ==
    /\ urlOut.done
    /\ net[<<"a", 0>>] = "raise" /\ net[<<"a", 1>>] = "notfound"
    /\ net[<<"a", 2>>] = "ok"
    /\ urlOut.tmpl.rw = 2 /\ Len(urlOut.fetched) = 3

(***************************************************************************)
(* Properties of the version engines                                       *)
(***************************************************************************)
\* the migration handed out a rewritten recipe: Version.migrate wrote
\* meta.yaml, update_version returned the dumped recipe
Delivered == result \in {"muid", "doc"}

Range(f) == {f[x] : x \in DOMAIN f}

\* a URL key whose URL changes with the version
Versioned(item) ==
    item.base = "url" /\ \E k \in DOMAIN item.urls : "version" \in item.urls[k].vars

\* a hash was stored for the URL key urlsel of entry i
Rehashed(i, urlsel) ==
    \E k \in DOMAIN iters :
        iters[k].i = i /\ iters[k].kind = "stored" /\ iters[k].urlsel = urlsel

\* C3: a rewritten recipe is handed out only if every source entry, under
\* every selector variant of its URL, was re-hashed, and no attempt failed.
C3_NoPartialUpdate ==
    Delivered =>
      /\ \A k \in DOMAIN iters : iters[k].kind \notin {"failed", "noreplace"}
      /\ \A i \in DOMAIN old.srcs : \A j \in DOMAIN old.srcs[i] :
           Versioned(old.srcs[i][j]) => Rehashed(i, old.srcs[i][j].sel)

\* the hash values the engine has put into the recipe (the items that are not
\* in the recipe as read)
Fetched(hv) ==
    /\ hv.kind = "hash"
    /\ net[<<hv.url.id, hv.url.rw>>] = "ok"
    /\ hv.url \in Range(fetchLog)
    /\ hv.url.ver \in {NewVersion, "-"}

WrittenOk(hv) == hv.kind \in {"str", "tmpl", "none"} \/ Fetched(hv)

\* the URLs of entry i as they are now, rendered under the context of some
\* selector
OwnUrls(i) ==
    {RenderJinja2(srcs[i][j].urls[k], Context(jvars, sel)) :
        <<j, k, sel>> \in {x \in (DOMAIN srcs[i]) \X (1..2) \X {"", "win", "win64"} :
            /\ x[2] \in DOMAIN srcs[i][x[1]].urls
            /\ Renders(srcs[i][x[1]].urls[x[2]], Context(jvars, x[3]))}}

StoredWell ==
    /\ \A k \in DOMAIN iters : iters[k].kind = "stored" =>
         /\ Fetched(iters[k].hash)
         /\ iters[k].hash.url = RenderJinja2(iters[k].tmpl, iters[k].context)
         /\ iters[k].context["version"] = NewVersion
    /\ \A i \in DOMAIN srcs : \A j \in DOMAIN srcs[i] :
         srcs[i][j] \notin Range(old.srcs[i]) =>
           /\ WrittenOk(srcs[i][j].hv)
           /\ srcs[i][j].hv.kind = "hash" => srcs[i][j].hv.url \in OwnUrls(i)
    /\ \A j \in DOMAIN jvars :
         jvars[j] \notin Range(old.jvars) =>
           /\ WrittenOk(jvars[j].hv)
           /\ jvars[j].hv.kind = "hash" =>
                \E k \in DOMAIN iters : /\ iters[k].kind = "stored"
                                        /\ iters[k].hash = jvars[j].hv
                                        /\ iters[k].hash.url \in OwnUrls(iters[k].i)

\* C8: every hash in a hash field or in the variable table that the engine
\* wrote is the hash of a URL that was fetched with success, the URL of the
\* entry rendered with the new version.
C8_HashesAreFetched == StoredWell

\* C8 as it holds: so it is without hash_; with hash_ what is written is
\* hash_.hash_value, and nothing is fetched.
C8_HashesAreFetchedOrGiven ==
    IF given = NoGiven THEN StoredWell
    ELSE /\ fetchLog = <<>>
         /\ \A i \in DOMAIN srcs : \A j \in DOMAIN srcs[i] :
              srcs[i][j].hv.kind \in {"str", "tmpl", "none", "given"}
         /\ \A k \in DOMAIN iters : iters[k].kind = "stored" => iters[k].hash = given.hv

\* a hash fetched from a rewrite of the URL went into the variable table
C8_Witness ==
    /\ engine = "v1" /\ result = "muid"
    /\ \E k \in DOMAIN iters :
         /\ iters[k].kind = "stored" /\ iters[k].wrote = "jvar"
         /\ iters[k].tmpl.rw > 0
         /\ \E j \in DOMAIN jvars : jvars[j].hv = iters[k].hash

\* the variables an entry references in its URLs and hash fields
Referenced(src) ==
    UNION {UNION {src[j].urls[k].vars : k \in DOMAIN src[j].urls} : j \in DOMAIN src}
      \cup {src[j].hv.s : j \in {x \in DOMAIN src : src[x].hv.kind = "tmpl"}}

RefsUndeclared(src) == \E v \in Referenced(src) : GenKeySelector(old.jvars, v) = {}

\* C10: _try_to_update_version returns False for an entry that references a
\* variable without declaration, and migrate does not rewrite such a recipe.
C10_UndeclaredFails ==
    /\ (engine = "v1" /\ vpc = "source" /\ selsLeft = {} /\ RefsUndeclared(old.srcs[si]))
         => ~updated
    /\ (engine = "v1" /\ result = "muid")
         => \A i \in DOMAIN old.srcs : ~RefsUndeclared(old.srcs[i])

\* the iteration that a step of the loop has just added to the log
Latest == iters'[Len(iters')]

Abandoned == {"skip", "nourl", "nohash", "failed", "noreplace"}

\* C11: a selector iteration that is abandoned (the selector is skipped, the
\* URL or hash key is absent, no candidate could be hashed, no variable could
\* take the hash) leaves the source entries and the variable table as they
\* were, and the loop goes on with the selectors not yet visited; when the
\* loop ends every possible selector of the entry has been visited.
C11_AbandonedWritesNothing ==
    /\ [][(engine = "v1" /\ Len(iters') = Len(iters) + 1 /\ Latest.kind \in Abandoned)
            => /\ jvars' = jvars
               /\ srcs' = srcs
               /\ vpc' = "source"
               /\ selsLeft' = selsLeft \ {Latest.sel}]_vars
    /\ [](engine = "v1" /\ vpc = "source" /\ selsLeft = {} /\ AnyUrlKey(srcs[si])
            => {iters[k].sel : k \in {x \in DOMAIN iters : iters[x].i = si}}
                 = CompileAllSelectors(jvars, srcs[si]))

\* a selector of an entry was skipped, a later one of the same entry stored a
\* hash, and one iteration fetched without finding a variable for the hash
C11_Witness ==
    /\ \E k, l \in DOMAIN iters :
         /\ k < l /\ iters[k].i = iters[l].i
         /\ iters[k].kind = "skip" /\ iters[l].kind = "stored"
    /\ \E k \in DOMAIN iters : iters[k].kind \in {"noreplace", "failed"}

\* C12: when update_hash raises HashError for a source, the source is as it
\* was before the call.
C12_HashErrorLeavesSource ==
    [][(engine = "v2" /\ Len(iters') = Len(iters) + 1 /\ Latest.kind = "failed")
         => srcs' = srcs]_vars

\* the recipe as read has no version variable, or a source with a
\* version-control key (git_url in meta.yaml, git in recipe.yaml)
NoVersionOrGit ==
    \/ ~HasKey(old.jvars, "version", NoSelector)
    \/ \E i \in DOMAIN old.srcs : \E j \in DOMAIN old.srcs[i] :
         old.srcs[i][j].base \in {"git_url", "git"}

\* C13: a recipe without version variable or with a version-control source is
\* rejected: nothing is fetched, the file is not written, and the migration
\* ends with the empty result and no document.
C13_Rejected ==
    NoVersionOrGit =>
      /\ fetchLog = <<>>
      /\ file = old
      /\ ret = NoDoc
      /\ vpc = "done" => result = "empty"

\* the recipe in memory is the one that was read, but for the version
SameButVersion ==
    /\ srcs = old.srcs
    /\ Len(jvars) = Len(old.jvars)
    /\ \A j \in DOMAIN jvars :
         (jvars[j].base # "version" \/ jvars[j].sel # NoSelector)
           => jvars[j] = old.jvars[j]

\* C14: when every source reported success and the recipe is the one that was
\* read (byte for byte, or once the old version is put back, which is what
\* migrate compares), migrate returns the empty result and does not write.
C14_NoOpIsFailure ==
    [][(engine = "v1" /\ vpc = "finish" /\ vpc' = "done" /\ didUpdate
          /\ SameButVersion)
         => (result' = "empty" /\ file' = old)]_vars

\* every source was fetched and hashed, and the recipe is byte for byte the
\* one that was read
C14_Witness ==
    /\ engine = "v1" /\ vpc = "done" /\ result = "empty"
    /\ \A i \in DOMAIN srcs : Rehashed(i, NoSelector)
    /\ \A k \in DOMAIN iters : iters[k].kind = "stored"
    /\ Dump(jvars, srcs, old.build) = old
    /\ file = old

\* the selectors in one fixed order
SelectorOrder == <<"", "win", "win64">>

RECURSIVE InOrder(_, _, _, _)
\* the loop of _try_to_update_version over the selectors in the order given:
\* the return value, the entry and the table at its end
InOrder(jv, src, order, upd) ==
    IF order = <<>> THEN [ret |-> upd, src |-> src, jv |-> jv]
    ELSE LET r == IterateSelector(jv, src, 1, Head(order), FALSE)
         IN  InOrder(r.jv, r.src, Tail(order), upd /\ r.keep)

\* C15: whatever the order in which the selectors were visited, the return
\* value of _try_to_update_version, the entry and the variable table are
\* those of the visit in the fixed order (stated for the first entry of the
\* recipe, whose state on entry is the recipe as read with the new version).
C15_SameForEveryOrder ==
    (engine = "v1" /\ vpc = "source" /\ si = 1 /\ selsLeft = {} /\ AnyUrlKey(old.srcs[1]))
      => LET jv0 == SetHv(old.jvars, "version", NoSelector, Str(NewVersion))
             ref == InOrder(jv0, old.srcs[1],
                            SelectSeq(SelectorOrder,
                                      LAMBDA x : x \in CompileAllSelectors(jv0, old.srcs[1])),
                            TRUE)
         IN  /\ updated = ref.ret
             /\ srcs[1] = ref.src
             /\ jvars = ref.jv

\* the last iteration ran _try_replace_hash: a hash was fetched
Replacing ==
    /\ engine = "v1"
    /\ Len(iters') = Len(iters) + 1
    /\ iters'[Len(iters')].kind \in {"stored", "noreplace"}

\* the names _try_replace_hash may write under selector sel, in the order of
\* preference: with the selector, from the fixed list, then the algorithm's;
\* then without the selector, likewise
Preferred(sel) ==
    LET cnames == Append(CHECKSUM_NAMES, HashType)
        with == [c \in DOMAIN cnames |-> <<cnames[c], sel>>]
        without == [c \in DOMAIN cnames |-> <<cnames[c], NoSelector>>]
    IN  IF sel = NoSelector THEN without ELSE with \o without

\* the places in table jv of the first preferred name that exists in it
FirstPreferred(jv, sel) ==
    LET p == Preferred(sel)
        there == {k \in DOMAIN p : HasKey(jv, p[k][1], p[k][2])}
        k == CHOOSE x \in there : \A y \in there : x <= y
    IN  IF there = {} THEN {} ELSE {KeyIdx(jv, p[k][1], p[k][2])}

\* C19: when the hash field of the entry is a template, _try_replace_hash
\* leaves the field as it is and writes the new hash into exactly one variable
\* of the table: the first that exists among the selector-qualified names
\* (fixed list, then the algorithm's name), else among the unqualified names
\* in the same order; with no such variable it fails and nothing changes.  When
\* the field is a literal, the field alone is written and the table is left
\* alone.
C19_HashRouting ==
    Replacing =>
      LET rec == iters'[Len(iters')]
          src == srcs[si]
          h == KeyIdx(src, HashType, KeySel(src, HashType, rec.sel))
          target == FirstPreferred(jvars, rec.sel)
      IN  IF src[h].hv.kind = "tmpl"
            THEN /\ srcs'[si][h] = src[h]
                 /\ Len(jvars') = Len(jvars)
                 /\ \A k \in DOMAIN jvars \ target : jvars'[k] = jvars[k]
                 /\ IF target = {}
                      THEN rec.kind = "noreplace" /\ srcs' = srcs
                      ELSE /\ rec.kind = "stored"
                           /\ \A k \in target :
                                /\ jvars'[k].hv = rec.hash
                                /\ jvars'[k].base = jvars[k].base
                                /\ jvars'[k].sel = jvars[k].sel
            ELSE /\ rec.kind = "stored"
                 /\ jvars' = jvars
                 /\ srcs'[si][h].hv = rec.hash
                 /\ \A k \in DOMAIN src \ {h} : src[k].base # "url" => srcs'[si][k] = src[k]

C19_PreferenceAndFrame == [][C19_HashRouting]_vars

(***************************************************************************)
(* Properties of the executor context                                      *)
(***************************************************************************)
\* C16: outside an executor context PRLOCK and DRLOCK are DummyLock objects,
\* in the calling process and in any worker process left, however the body
\* ended.
C16_LocksTornDown ==
    epc = "out" =>
      /\ PRLOCK = "DummyLock" /\ DRLOCK = "DummyLock"
      /\ wPRLOCK \in {"none", "DummyLock"} /\ wDRLOCK \in {"none", "DummyLock"}

====
